---------------------------- MODULE Spec2Model ----------------------------
(***************************************************************************)
(* Model of the derive macro EnumVariantNameConst (src/src/lib.rs).        *)
(*                                                                         *)
(* One invocation of enum_variant_name_const_derive takes one parsed       *)
(* declaration (syn::DeriveInput) and returns one token stream: either a   *)
(* single compile_error! item or a single impl block holding the const fn  *)
(* variant_name.  The generated function is then evaluated on values of    *)
(* the declared enum (src/tests/main.rs).                                  *)
(*                                                                         *)
(* Declarations are drawn from those the host parser hands to a derive:    *)
(* generic parameters in any order (the order rule of the language is      *)
(* enforced only after the derive has run) with distinct names, and        *)
(* variants with distinct names.                                           *)
(***************************************************************************)
EXTENDS Integers, Sequences, FiniteSets, TLC

VARIABLES pc, mode, input, output, value, result

vars == <<pc, mode, input, output, value, result>>

(***************************************************************************)
(* Bounds of the explored declarations.                                    *)
(***************************************************************************)
MaxVariants == 2
MaxArity == 2
MaxParams == 3

SeqsUpTo(S, n) == UNION {[1..k -> S] : k \in 0..n}

(***************************************************************************)
(* Tokens.  An identifier and a string literal are different tokens.       *)
(***************************************************************************)
Ident(s) == [tok |-> "ident", text |-> s]

TypeIdents == {Ident("E")}

VariantIdents == {Ident("A"), Ident("B"), Ident("r#type")}

(***************************************************************************)
(* syn::Fields of a variant or of a struct.                                *)
(***************************************************************************)
FieldsSet ==
    {[kind |-> "Unit", arity |-> 0]}
    \cup {[kind |-> k, arity |-> n] : k \in {"Unnamed", "Named"}, n \in 1..MaxArity}

VariantSet == [ident : VariantIdents, fields : FieldsSet]

(***************************************************************************)
(* syn::Data: an enum with its variants, a struct or a union.              *)
(***************************************************************************)
DistinctIdents(vs) ==
    \A i, j \in 1..Len(vs) : vs[i].ident = vs[j].ident => i = j

VariantLists == {vs \in SeqsUpTo(VariantSet, MaxVariants) : DistinctIdents(vs)}

DataSet ==
    {[kind |-> "Enum", variants |-> vs, fields |-> [kind |-> "Unit", arity |-> 0]] :
        vs \in VariantLists}
    \cup {[kind |-> "Struct", variants |-> <<>>, fields |-> f] : f \in FieldsSet}
    \cup {[kind |-> "Union", variants |-> <<>>, fields |-> f] :
            f \in {g \in FieldsSet : g.kind = "Named"}}

(***************************************************************************)
(* syn::GenericParam: lifetime, type or const parameter with its bounds    *)
(* (for a const parameter, its type) and its default ("" when absent).     *)
(***************************************************************************)
ParamPool ==
    { [kind |-> "lifetime", name |-> "'a", bounds |-> <<>>, default |-> ""],
      [kind |-> "lifetime", name |-> "'b", bounds |-> <<"'static">>, default |-> ""],
      [kind |-> "type", name |-> "T", bounds |-> <<"Copy">>, default |-> "u8"],
      [kind |-> "const", name |-> "N", bounds |-> <<"usize">>, default |-> ""] }

DistinctNames(ps) ==
    \A i, j \in 1..Len(ps) : ps[i].name = ps[j].name => i = j

ParamLists ==
    {ps \in SeqsUpTo(ParamPool, MaxParams) : DistinctNames(ps)}

WhereClauses == {<<>>, <<"T: Clone">>}

GenericsSet == [params : ParamLists, where_clause : WhereClauses]

(***************************************************************************)
(* syn::DeriveInput.                                                       *)
(***************************************************************************)
DeriveInputs == [ident : TypeIdents, generics : GenericsSet, data : DataSet]

NoMode == "none"
NoOutput == <<>>
NoValue == [variant |-> 0, payload |-> 0]
NoResult == "none"


(***************************************************************************)
(* The macro entry points the crate exports: the derive alone.  No         *)
(* attribute macro is exported.                                            *)
(***************************************************************************)
EntryPoints == {"Annotation"}

(***************************************************************************)
(* Generics::split_for_impl: lifetimes are printed before type and const   *)
(* parameters.  The impl-side list keeps bounds and drops defaults; the    *)
(* type-side list keeps only the names; the where clause is handed over    *)
(* as it is.                                                               *)
(***************************************************************************)
IsLifetime(p) == p.kind = "lifetime"

IsNotLifetime(p) == p.kind # "lifetime"

PrintOrder(params) == SelectSeq(params, IsLifetime) \o SelectSeq(params, IsNotLifetime)

ImplParam(p) == [kind |-> p.kind, name |-> p.name, bounds |-> p.bounds]

TyParam(p) == p.name

split_for_impl_dropping_const(generics) ==
    LET kept == SelectSeq(generics.params, LAMBDA p : p.kind # "const")
    IN  [impl_generics |-> [i \in 1..Len(kept) |-> ImplParam(kept[i])],
         ty_generics |-> [i \in 1..Len(kept) |-> TyParam(kept[i])],
         where_clause |-> generics.where_clause]

split_for_impl(generics) ==
    LET ps == PrintOrder(generics.params)
    IN  [impl_generics |-> [i \in 1..Len(ps) |-> ImplParam(ps[i])],
         ty_generics |-> [i \in 1..Len(ps) |-> TyParam(ps[i])],
         where_clause |-> generics.where_clause]

(***************************************************************************)
(* stringify!(#ident): the string literal spelling the identifier.         *)
(***************************************************************************)
stringify_prefixed(ident) == [tok |-> "lit_str", text |-> "Self::" \o ident.text]

stringify(ident) == [tok |-> "lit_str", text |-> ident.text]

(***************************************************************************)
(* The pattern of one variant: Self::V { .. }, Self::V ( .. ) or Self::V.  *)
(* rest is the number of `..` markers, wild the number of `_` patterns.    *)
(***************************************************************************)
pat_per_field(v) ==
    CASE v.fields.kind = "Named" ->
            [ident |-> v.ident, form |-> "struct", rest |-> 0, wild |-> v.fields.arity]
      [] v.fields.kind = "Unnamed" ->
            [ident |-> v.ident, form |-> "tuple", rest |-> 0, wild |-> v.fields.arity]
      [] v.fields.kind = "Unit" ->
            [ident |-> v.ident, form |-> "path", rest |-> 0, wild |-> 0]

pat(v) ==
    CASE v.fields.kind = "Named" ->
            [ident |-> v.ident, form |-> "struct", rest |-> 1, wild |-> 0]
      [] v.fields.kind = "Unnamed" ->
            [ident |-> v.ident, form |-> "tuple", rest |-> 1, wild |-> 0]
      [] v.fields.kind = "Unit" ->
            [ident |-> v.ident, form |-> "path", rest |-> 0, wild |-> 0]

(***************************************************************************)
(* One match arm: #pat => stringify!(#ident),                              *)
(***************************************************************************)
match_arm(v) == [pat |-> pat(v), body |-> stringify(v.ident)]

(***************************************************************************)
(* data_enum.variants.iter().map(..): one arm per variant, in order.       *)
(***************************************************************************)
match_arms_reversed(variants) ==
    [i \in 1..Len(variants) |-> match_arm(variants[Len(variants) + 1 - i])]

match_arms_skipping_last(variants) ==
    [i \in 1..(IF Len(variants) > 1 THEN Len(variants) - 1 ELSE Len(variants)) |->
        match_arm(variants[i])]

match_arms(variants) == [i \in 1..Len(variants) |-> match_arm(variants[i])]

(***************************************************************************)
(* The expanded token stream: one impl item with one function.             *)
(***************************************************************************)
ImplItem(enum_ident, split, arms, constness) ==
    [item |-> "impl",
     impl_generics |-> split.impl_generics,
     self_ty |-> enum_ident,
     ty_generics |-> split.ty_generics,
     where_clause |-> split.where_clause,
     fns |-> << [attrs |-> <<"inline(always)">>,
                 vis |-> "pub",
                 constness |-> constness,
                 name |-> "variant_name",
                 receiver |-> "&self",
                 ret |-> "&'static str",
                 scrutinee |-> "self",
                 arms |-> arms] >>]

expanded_not_const(enum_ident, split, arms) ==
    << ImplItem(enum_ident, split, arms, FALSE) >>

expanded(enum_ident, split, arms) ==
    << ImplItem(enum_ident, split, arms, TRUE) >>

(***************************************************************************)
(* syn::Error::new_spanned(enum_ident, msg).to_compile_error(): a single   *)
(* compile_error! item carrying the span of the type's name.  The message  *)
(* is the source's, without the quoting marks around the macro's name.     *)
(***************************************************************************)
OnlyEnumsMessage == "EnumVariantNameConst can only be derived for enums"

to_compile_error(enum_ident, message) ==
    << [item |-> "compile_error", span |-> enum_ident, message |-> message] >>

(***************************************************************************)
(* The derive entry point.                                                 *)
(***************************************************************************)
derive_error_with_impl(item) ==
    LET split == split_for_impl(item.generics)
    IN  IF item.data.kind # "Enum"
        THEN to_compile_error(item.ident, OnlyEnumsMessage)
             \o expanded(item.ident, split, <<>>)
        ELSE expanded(item.ident, split, match_arms(item.data.variants))

derive_rejecting_empty(item) ==
    LET split == split_for_impl(item.generics)
    IN  IF item.data.kind # "Enum" \/ item.data.variants = <<>>
        THEN to_compile_error(item.ident, OnlyEnumsMessage)
        ELSE expanded(item.ident, split, match_arms(item.data.variants))

enum_variant_name_const_derive(item) ==
    LET split == split_for_impl(item.generics)
    IN  IF item.data.kind # "Enum"
        THEN to_compile_error(item.ident, OnlyEnumsMessage)
        ELSE expanded(item.ident, split, match_arms(item.data.variants))

(***************************************************************************)
(* Values of the declared enum: the index of the variant the value was     *)
(* constructed with, and the payload (one content per field).              *)
(***************************************************************************)
PayloadContents == {0, 1}

Values(item) ==
    IF item.data.kind # "Enum" THEN {}
    ELSE {val \in [variant : 1..Len(item.data.variants), payload : PayloadContents] :
            item.data.variants[val.variant].fields.kind = "Unit" => val.payload = 0}

(***************************************************************************)
(* Whether a pattern is accepted for a variant of the given shape, and     *)
(* whether it matches a value.  A pattern names its variant by identifier; *)
(* `..` ignores every field, so the payload plays no part.  A braced       *)
(* pattern is accepted for every shape of variant, as long as it names     *)
(* only fields the variant has and, without `..`, all of them.             *)
(***************************************************************************)
PatternFits(p, fields) ==
    CASE p.form = "path" -> fields.kind = "Unit"
      [] p.form = "tuple" ->
            /\ fields.kind = "Unnamed"
            /\ p.rest <= 1
            /\ IF p.rest = 1 THEN p.wild <= fields.arity ELSE p.wild = fields.arity
      [] p.form = "struct" ->
            /\ p.rest <= 1
            /\ p.wild <= fields.arity
            /\ p.rest = 1 \/ p.wild = fields.arity

PatternMatches(p, v, item) == p.ident = item.data.variants[v.variant].ident

MatchingArms(arms, v, item) == {i \in 1..Len(arms) : PatternMatches(arms[i].pat, v, item)}

(***************************************************************************)
(* Evaluation of  match self { arms }: the body of the first arm whose     *)
(* pattern matches; a string literal evaluates to its text.                *)
(***************************************************************************)
variant_name(fn, v, item) ==
    LET m == MatchingArms(fn.arms, v, item)
    IN  IF m = {} THEN "fallthrough"
        ELSE fn.arms[CHOOSE i \in m : \A j \in m : i <= j].body.text

(***************************************************************************)
(* The state machine: the declaration is either put under the derive,      *)
(* followed by a call of the generated function on a value of the enum,    *)
(* or put under an attribute of the same name.  The crate exports no       *)
(* attribute macro, so that directive resolves to nothing and no code of   *)
(* the crate runs: nothing is emitted for the declaration.                 *)
(***************************************************************************)
Init ==
    /\ pc = "start"
    /\ mode = NoMode
    /\ input \in DeriveInputs
    /\ output = NoOutput
    /\ value = NoValue
    /\ result = NoResult

Derive ==
    /\ pc = "start"
    /\ "Annotation" \in EntryPoints
    /\ mode' = "Annotation"
    /\ output' = enum_variant_name_const_derive(input)
    /\ pc' = "expanded"
    /\ UNCHANGED <<input, value, result>>

Attach ==
    /\ pc = "start"
    /\ "Attachment" \notin EntryPoints
    /\ mode' = "Attachment"
    /\ output' = NoOutput
    /\ pc' = "unresolved"
    /\ UNCHANGED <<input, value, result>>

Succeeded == Len(output) = 1 /\ output[1].item = "impl"

Call(v) ==
    /\ pc = "expanded"
    /\ Succeeded
    /\ value' = v
    /\ result' = variant_name(output[1].fns[1], v, input)
    /\ pc' = "called"
    /\ UNCHANGED <<mode, input, output>>

Next ==
    \/ Derive
    \/ Attach
    \/ \E v \in Values(input) : Call(v)

Spec == Init /\ [][Next]_vars

(***************************************************************************)
(* Shorthands for the claims.                                              *)
(***************************************************************************)
Expanded == pc \in {"expanded", "called"}

IsEnum == input.data.kind = "Enum"

Variants == input.data.variants

Params == input.generics.params

TheFn == output[1].fns[1]

Arms == TheFn.arms

TypeOK ==
    /\ pc \in {"start", "expanded", "called", "unresolved"}
    /\ mode \in {NoMode, "Annotation", "Attachment"}
    /\ mode = "Annotation" <=> Expanded
    /\ input \in DeriveInputs
    /\ Len(output) <= 1
    /\ value.variant \in 0..MaxVariants
    /\ result \in STRING

(***************************************************************************)
(* C1: variant_name() called on a value returns exactly the text of the    *)
(* identifier of the variant the value was constructed with, whatever the  *)
(* variant's shape and whatever the payload holds.                         *)
(***************************************************************************)
C1_VariantNameIsBranchIdent ==
    pc = "called" => result = Variants[value.variant].ident.text

C1_Witness ==
    /\ pc = "called"
    /\ Len(Variants) = 2
    /\ Variants[value.variant].fields = [kind |-> "Unnamed", arity |-> 2]
    /\ value.payload = 1
    /\ result = "r#type"

(***************************************************************************)
(* C2: for an enum with N >= 1 variants the dispatch has exactly N arms,   *)
(* exactly one arm per declared variant, and every value of the enum is    *)
(* matched by exactly one arm, so that a call never falls through.         *)
(***************************************************************************)
C2_OneArmPerBranch ==
    (Expanded /\ IsEnum /\ Len(Variants) >= 1) =>
        /\ Succeeded
        /\ Len(Arms) = Len(Variants)
        /\ \A i \in 1..Len(Variants) :
              Cardinality({k \in 1..Len(Arms) : Arms[k].pat.ident = Variants[i].ident}) = 1
        /\ \A v \in Values(input) : Cardinality(MatchingArms(Arms, v, input)) = 1
        /\ pc = "called" => result # "fallthrough"

C2_Witness ==
    /\ pc = "called"
    /\ Len(Variants) = 2
    /\ value.variant = 2
    /\ Len(Arms) = 2
    /\ Cardinality(MatchingArms(Arms, value, input)) = 1

(***************************************************************************)
(* C3: the derive applied to a struct or a union returns exactly one       *)
(* diagnostic, at the span of the type's name, saying that the derive is   *)
(* for enums only, and no impl block or other item beside it.              *)
(***************************************************************************)
C3_NonEnumOneDiagnostic ==
    (Expanded /\ ~IsEnum) =>
        /\ Len(output) = 1
        /\ output[1].item = "compile_error"
        /\ output[1].span = input.ident
        /\ output[1].message = OnlyEnumsMessage
        /\ \A k \in 1..Len(output) : output[k].item # "impl"

C3_Witness ==
    /\ pc = "expanded"
    /\ input.data.kind = "Union"
    /\ Len(Params) = 2
    /\ Len(output) = 1
    /\ output[1].item = "compile_error"

(***************************************************************************)
(* C4 as stated: the impl block carries every lifetime, type and const     *)
(* parameter of the declaration, same count and same order, none renamed;  *)
(* the impl-side list and the type-side list name the same parameters in   *)
(* the declared order (the type-side one as bare names), and the where     *)
(* clause is the declaration's.                                            *)
(***************************************************************************)
C4_GenericsPreserved ==
    (Expanded /\ IsEnum) =>
        /\ Len(output[1].impl_generics) = Len(Params)
        /\ Len(output[1].ty_generics) = Len(Params)
        /\ \A i \in 1..Len(Params) :
              /\ output[1].impl_generics[i].name = Params[i].name
              /\ output[1].impl_generics[i].kind = Params[i].kind
              /\ output[1].impl_generics[i].bounds = Params[i].bounds
              /\ output[1].ty_generics[i] = Params[i].name
        /\ output[1].where_clause = input.generics.where_clause
        /\ output[1].self_ty = input.ident

(***************************************************************************)
(* C4 amended: the impl block carries every parameter of the declaration,  *)
(* same count, none renamed or dropped, each with its kind and bounds; the *)
(* type-side list names the parameters of the impl-side list, in the same  *)
(* order; the where clause is the declaration's.  When the declaration     *)
(* lists its lifetimes before its type and const parameters, both lists    *)
(* are in the declared order.  Otherwise the lifetimes are moved ahead of  *)
(* the type and const parameters, and the declared order is kept among the *)
(* lifetimes and among the type and const parameters.                      *)
(***************************************************************************)
LifetimesFirst(ps) ==
    \A i, j \in 1..Len(ps) :
        (i < j /\ ps[j].kind = "lifetime") => ps[i].kind = "lifetime"

ImplPos(name) ==
    CHOOSE k \in 1..Len(output[1].impl_generics) : output[1].impl_generics[k].name = name

C4_GenericsPreservedLifetimesFirst ==
    (Expanded /\ IsEnum) =>
        /\ Len(output[1].impl_generics) = Len(Params)
        /\ Len(output[1].ty_generics) = Len(Params)
        /\ \A i \in 1..Len(Params) :
              Cardinality({k \in 1..Len(output[1].impl_generics) :
                              /\ output[1].impl_generics[k].name = Params[i].name
                              /\ output[1].impl_generics[k].kind = Params[i].kind
                              /\ output[1].impl_generics[k].bounds = Params[i].bounds}) = 1
        /\ \A k \in 1..Len(output[1].impl_generics) :
              k <= Len(output[1].ty_generics)
              /\ output[1].ty_generics[k] = output[1].impl_generics[k].name
        /\ output[1].where_clause = input.generics.where_clause
        /\ output[1].self_ty = input.ident
        /\ LifetimesFirst(Params) =>
              \A i \in 1..Len(Params) :
                  /\ output[1].impl_generics[i].name = Params[i].name
                  /\ output[1].ty_generics[i] = Params[i].name
        /\ LifetimesFirst(output[1].impl_generics)
        /\ \A i, j \in 1..Len(Params) :
              (i < j /\ ((Params[i].kind = "lifetime") <=> (Params[j].kind = "lifetime")))
                  => ImplPos(Params[i].name) < ImplPos(Params[j].name)

C4_Witness ==
    /\ pc = "expanded"
    /\ IsEnum
    /\ Len(Params) = 3
    /\ Params[1].kind = "lifetime"
    /\ Params[2].kind = "type"
    /\ Params[3].kind = "const"
    /\ LifetimesFirst(Params)
    /\ input.generics.where_clause # <<>>
    /\ Len(output[1].impl_generics) = 3
    /\ output[1].ty_generics = <<"'a", "T", "N">>

(***************************************************************************)
(* C5: there are two entry points.  A declaration put under the            *)
(* attachment directive yields the declaration itself, unmodified,         *)
(* followed by the impl block; a declaration put under the annotation      *)
(* directive yields the impl block alone.                                  *)
(***************************************************************************)
C5_AttachmentReemitsDeclaration ==
    /\ (mode = "Attachment" /\ IsEnum) =>
          /\ Len(output) = 2
          /\ output[1] = [item |-> "declaration", decl |-> input]
          /\ output[2].item = "impl"
    /\ (mode = "Annotation" /\ IsEnum) =>
          /\ Len(output) = 1
          /\ output[1].item = "impl"

(***************************************************************************)
(* C7: a successful output is one impl block with one function, named      *)
(* variant_name, taking &self, returning &'static str, marked              *)
(* #[inline(always)] and const, whose arms evaluate to string literals.    *)
(***************************************************************************)
C7_OneConstAccessor ==
    (Expanded /\ IsEnum) =>
        /\ Len(output) = 1
        /\ output[1].item = "impl"
        /\ Len(output[1].fns) = 1
        /\ TheFn.name = "variant_name"
        /\ TheFn.receiver = "&self"
        /\ TheFn.ret = "&'static str"
        /\ TheFn.constness
        /\ TheFn.attrs = <<"inline(always)">>
        /\ \A k \in 1..Len(Arms) : Arms[k].body.tok = "lit_str"

C7_Witness ==
    /\ pc = "called"
    /\ Len(Variants) = 2
    /\ Variants[2].ident = Ident("B")
    /\ value.variant = 2
    /\ TheFn.constness
    /\ result = "B"

(***************************************************************************)
(* C8: the arms are in declaration order: the i-th arm matches the i-th    *)
(* declared variant and yields the i-th variant's name.                    *)
(***************************************************************************)
C8_ArmsInDeclarationOrder ==
    (Expanded /\ IsEnum) =>
        /\ Len(Arms) = Len(Variants)
        /\ \A i \in 1..Len(Variants) :
              /\ Arms[i].pat.ident = Variants[i].ident
              /\ Arms[i].body.text = Variants[i].ident.text

C8_Witness ==
    /\ pc = "expanded"
    /\ Len(Variants) = 2
    /\ Variants[1].ident = Ident("B")
    /\ Variants[2].ident = Ident("A")
    /\ Arms[1].pat.ident = Ident("B")
    /\ Arms[2].body.text = "A"

(***************************************************************************)
(* C9: every variant gets one pattern, whose form depends on the shape     *)
(* case alone: the bare path for Unit, the path with a single ( .. ) for   *)
(* Unnamed of any arity, the path with a single { .. } for Named of any    *)
(* arity; the pattern is accepted for the variant, and is the one the      *)
(* variant would get with any other arity.                                 *)
(***************************************************************************)
C9_PatternByShapeOnly ==
    (Expanded /\ IsEnum) =>
        /\ Len(Arms) = Len(Variants)
        /\ \A i \in 1..Len(Variants) :
              LET p == Arms[i].pat
                  f == Variants[i].fields
              IN  /\ p.ident = Variants[i].ident
                  /\ f.kind = "Unit" => (p.form = "path" /\ p.rest = 0 /\ p.wild = 0)
                  /\ f.kind = "Unnamed" => (p.form = "tuple" /\ p.rest = 1 /\ p.wild = 0)
                  /\ f.kind = "Named" => (p.form = "struct" /\ p.rest = 1 /\ p.wild = 0)
                  /\ PatternFits(p, f)
                  /\ \A n \in 1..MaxArity :
                        f.kind # "Unit" =>
                            p = pat([ident |-> Variants[i].ident,
                                     fields |-> [kind |-> f.kind, arity |-> n]])

C9_Witness ==
    /\ pc = "expanded"
    /\ Len(Variants) = 2
    /\ Variants[1].fields = [kind |-> "Unnamed", arity |-> 2]
    /\ Variants[2].fields = [kind |-> "Named", arity |-> 1]
    /\ Arms[1].pat.form = "tuple"
    /\ Arms[2].pat.form = "struct"

(***************************************************************************)
(* C10: an enum with no variant is accepted: the output is the impl block  *)
(* with no arm and no diagnostic; a diagnostic is returned exactly when    *)
(* the declaration is not an enum.                                         *)
(***************************************************************************)
C10_EmptyEnumAccepted ==
    Expanded =>
        /\ (IsEnum /\ Variants = <<>>) => (Succeeded /\ Arms = <<>>)
        /\ (\E k \in 1..Len(output) : output[k].item = "compile_error") <=> ~IsEnum

C10_Witness ==
    /\ pc = "expanded"
    /\ IsEnum
    /\ Variants = <<>>
    /\ Succeeded
    /\ Len(Arms) = 0

=============================================================================
